---- MODULE Spec2Model ----
(***************************************************************************)
(* The pipeline of aufgaben_und_auswertung:                                *)
(*   build_variants_sortiert.py : sheet "variants_raw" -> variants_sortiert *)
(*   analyse_bausteine.py       : variants_sortiert -> reg_sum/reg_presence *)
(* Row positions are 1-based here (pandas index i is position i + 1).      *)
(* Text is a sequence of one-character strings; a numeric cell holds its   *)
(* value in tenths, so 15 is the number 1.5.                               *)
(***************************************************************************)
EXTENDS Integers, Sequences, FiniteSets, TLC

\* ------------------------------------------------------------------ bounds
MaxRows == 6
NumB == 2

\* --------------------------------------------------------- program constants
WindowSize == 5
ExpectedVariants == 5

\* -------------------------------------------------------------------- text
UpperAE == {"A", "B", "C", "D", "E"}
LowerAE == {"a", "b", "c", "d", "e"}
Letters ==
    UpperAE \cup LowerAE \cup
    {"F", "G", "H", "I", "J", "K", "L", "M", "N", "O", "P", "Q", "R", "S", "T",
     "U", "V", "W", "X", "Y", "Z",
     "f", "g", "h", "i", "j", "k", "l", "m", "n", "o", "p", "q", "r", "s", "t",
     "u", "v", "w", "x", "y", "z"}
DigitChars == <<"0", "1", "2", "3", "4", "5", "6", "7", "8", "9">>
Digits == {DigitChars[i] : i \in 1..Len(DigitChars)}

AllIn(s, from, to, set) == \A i \in from..to : s[i] \in set

\* re.match(r"^[A-Za-z]+\d+$", s)
MatchTask(s) ==
    \E i \in 1..(Len(s) - 1) :
        AllIn(s, 1, i, Letters) /\ AllIn(s, i + 1, Len(s), Digits)

\* re.match(r"^[A-Za-z]+\d+[a-eA-E]$", s)
MatchVariant(s) ==
    /\ Len(s) >= 3
    /\ s[Len(s)] \in UpperAE \cup LowerAE
    /\ MatchTask(SubSeq(s, 1, Len(s) - 1))

\* re.match(r"^B\d+$", s)
MatchB(s) ==
    /\ Len(s) >= 2
    /\ s[1] = "B"
    /\ AllIn(s, 2, Len(s), Digits)

\* str.strip() for blanks
RECURSIVE LStrip(_)
LStrip(s) == IF s # <<>> /\ Head(s) = " " THEN LStrip(Tail(s)) ELSE s
RECURSIVE RStrip(_)
RStrip(s) ==
    IF s # <<>> /\ s[Len(s)] = " " THEN RStrip(SubSeq(s, 1, Len(s) - 1)) ELSE s
Strip(s) == RStrip(LStrip(s))

\* chr(64 + offset) for the offsets of the variant window
ChrOffset(offset) == <<"A", "B", "C", "D", "E", "F">>[offset]

\* str(i) for 0 <= i < 100
Decimal(i) ==
    IF i < 10 THEN <<DigitChars[i + 1]>>
    ELSE <<DigitChars[(i \div 10) + 1], DigitChars[(i % 10) + 1]>>

\* ------------------------------------------------------------------- cells
Empty == [t |-> "nan", v |-> 0]
Text == [t |-> "str", v |-> 0]
Num(v) == [t |-> "num", v |-> v]
NumText(v) == [t |-> "numstr", v |-> v]
NaN == Empty

\* pd.to_numeric(c, errors="coerce")
to_numeric(c) == IF c.t \in {"num", "numstr"} THEN Num(c.v) ELSE NaN

\* .fillna(0)
fillna0(x) == IF x.t = "nan" THEN Num(0) ELSE x

\* truncation toward zero of a value in tenths
Trunc(v) == IF v >= 0 THEN v \div 10 ELSE -((-v) \div 10)

\* .astype(int) of a filled numeric
astype_int(x) == Trunc(x.v)

\* the conversion of one Baustein cell of a task row
ConvertBaustein(c) == astype_int(fillna0(to_numeric(c)))

\* int(pd.to_numeric(c, errors="coerce") or 0): NaN is truthy, so "or 0"
\* replaces only a zero, and int(NaN) raises ValueError
IntOrZero(c) ==
    LET x == to_numeric(c)
        y == IF x.t = "nan" \/ x.v # 0 THEN x ELSE Num(0)
    IN  IF y.t = "nan" THEN [ok |-> FALSE, val |-> 0]
        ELSE [ok |-> TRUE, val |-> Trunc(y.v)]

\* the cell of the first column as text: .astype(str) turns an empty cell
\* into "nan"
AsStr(label) == IF label.t = "nan" THEN <<"n", "a", "n">> ELSE label.s

RECURSIVE SumSeq(_)
SumSeq(s) == IF s = <<>> THEN 0 ELSE Head(s) + SumSeq(Tail(s))

\* ------------------------------------------------------------- column names
S_variant == <<"v", "a", "r", "i", "a", "n", "t">>
S_variant_clean == S_variant \o <<"_", "c", "l", "e", "a", "n">>
S_cluster == <<"c", "l", "u", "s", "t", "e", "r">>
S_n_bausteine == <<"n", "_", "b", "a", "u", "s", "t", "e", "i", "n", "e">>
S_comp == <<"c", "o", "m", "p">>
S_comp_dot == <<"c", "o", "m", "p", ".">>
S_pass == <<"p", "a", "s", "s">>

\* ---------------------------------------------------------------- the sheet
\* Header labels of a sheet: "comp.", "pass", NumB Baustein columns numbered
\* by nums, and three columns whose names only resemble a Baustein name.
HeaderOf(nums) ==
    <<S_comp_dot, S_pass>>
        \o [i \in 1..NumB |-> <<"B">> \o Decimal(nums[i])]
        \o << <<"B", "x">>, <<"b", "1", "0">>, <<"B">> >>

Ascending == [i \in 1..NumB |-> i]
Descending == [i \in 1..NumB |-> NumB + 1 - i]
TenFirst == [i \in 1..NumB |-> IF i = 1 THEN 10 ELSE i]
\* a sheet none of whose columns is named like a Baustein
NoBausteinHeader ==
    <<S_comp_dot, S_pass>>
        \o [i \in 1..NumB |-> <<"b">> \o Decimal(i)]
        \o << <<"B", "x">>, <<"b", "1", "0">>, <<"B">> >>
Headers == {HeaderOf(Ascending), HeaderOf(Descending), HeaderOf(TenFirst), NoBausteinHeader}

Label(s) == [t |-> "str", s |-> s]
NoLabel == [t |-> "nan", s |-> <<>>]

\* A sheet row: the cell of the first column and the cells under the header.
SheetRow(label, comp, pass, b) ==
    [variant |-> label,
     cells |-> <<comp, pass>> \o [i \in 1..NumB |-> b[i]] \o <<Empty, Text, Num(10)>>]

OddOnes ==
    [i \in 1..NumB |-> IF i = 1 THEN NumText(10) ELSE IF i % 2 = 1 THEN Num(10) ELSE Empty]
TwoAndFractions ==
    [i \in 1..NumB |->
        IF i = 1 THEN Num(20) ELSE IF i = 2 THEN Num(-15) ELSE IF i = 3 THEN Text ELSE Num(5)]
AllEmpty == [i \in 1..NumB |-> Empty]

RowPool ==
    { SheetRow(Label(<<"I", "1">>), Empty, Empty, OddOnes),
      SheetRow(Label(<<" ", "I", "2", " ">>), Num(10), Num(0), TwoAndFractions),
      SheetRow(Label(<<"I", "1", "a">>), Num(10), NumText(10), AllEmpty),
      SheetRow(NoLabel, Num(20), Num(5), OddOnes) }

Sheets == UNION {[1..n -> RowPool] : n \in 0..MaxRows}

\* ------------------------------------------------------------------- state
VARIABLES
    pc,                 \* position of the pipeline
    header,             \* raw.columns after "variant"
    raw,                \* the data rows of the sheet
    df,                 \* raw rows with variant_clean
    baustein_cols,      \* build script: names of the Baustein columns
    tasks_df,           \* the task rows, Baustein cells converted
    task_pos,           \* next row of tasks_df.iterrows()
    variant_rows,       \* the records built so far
    stderr_warned,      \* the warning was written to stderr
    variants_csv,       \* variants_sortiert.csv
    a_cols,             \* analysis script: baustein_cols
    fit_raises,         \* the (outcome, predictor) fits that raise
    a_pos,              \* next iteration of the running analysis loop
    sum_rows,
    presence_rows,
    reg_sum,            \* reg_sum.csv
    reg_presence        \* reg_presence.csv

vars ==
    <<pc, header, raw, df, baustein_cols, tasks_df, task_pos, variant_rows,
      stderr_warned, variants_csv, a_cols, fit_raises, a_pos, sum_rows,
      presence_rows, reg_sum, reg_presence>>

buildVars ==
    <<baustein_cols, tasks_df, task_pos, variant_rows, stderr_warned, variants_csv>>
analysisVars == <<a_cols, fit_raises, a_pos, sum_rows, presence_rows, reg_sum, reg_presence>>

NoFile == [written |-> FALSE, columns |-> <<>>, rows |-> <<>>]

InitWith(sheets, headers) ==
    /\ pc = "read_excel"
    /\ header \in headers
    /\ raw \in sheets
    /\ df = <<>>
    /\ baustein_cols = <<>>
    /\ tasks_df = <<>>
    /\ task_pos = 1
    /\ variant_rows = <<>>
    /\ stderr_warned = FALSE
    /\ variants_csv = NoFile
    /\ a_cols = <<>>
    /\ fit_raises = {}
    /\ a_pos = 1
    /\ sum_rows = <<>>
    /\ presence_rows = <<>>
    /\ reg_sum = NoFile
    /\ reg_presence = NoFile

Init == InitWith(Sheets, Headers)

\* ------------------------------------------------ build_variants_sortiert.py
\* position of a column of df under the header
ColPos(name) == CHOOSE j \in 1..Len(header) : header[j] = name
CellOf(row, name) == row.cells[ColPos(name)]

\* df["variant_clean"] = df["variant"].astype(str).str.strip()
VariantClean(row) == Strip(AsStr(row.variant))

ReadExcel ==
    /\ pc = "read_excel"
    /\ df' = [i \in 1..Len(raw) |->
                [variant |-> raw[i].variant,
                 cells |-> raw[i].cells,
                 variant_clean |-> VariantClean(raw[i])]]
    /\ pc' = "find_tasks"
    /\ UNCHANGED <<header, raw>>
    /\ UNCHANGED buildVars
    /\ UNCHANGED analysisVars

\* task_mask = df["variant_clean"].str.match(r"^[A-Za-z]+\d+$")
task_mask(d, i) == MatchTask(d[i].variant_clean)

\* [c for c in df.columns if re.match(r"^B\d+$", str(c))]
BausteinCols(columns) == SelectSeq(columns, MatchB)

\* the converted Baustein cells of one task row, in baustein_cols order
TaskBausteine(row, cols) == [j \in 1..Len(cols) |-> ConvertBaustein(CellOf(row, cols[j]))]

\* tasks_df["n_bausteine"] = tasks_df[baustein_cols].sum(axis=1)
NBausteine(b) == SumSeq(b)

RECURSIVE TaskIndex(_, _)
TaskIndex(d, i) ==
    IF i > Len(d) THEN <<>>
    ELSE (IF task_mask(d, i) THEN <<i>> ELSE <<>>) \o TaskIndex(d, i + 1)

FindTasks ==
    /\ pc = "find_tasks"
    /\ LET cols == BausteinCols(<<S_variant>> \o header \o <<S_variant_clean>>)
           idx == TaskIndex(df, 1)
       IN  /\ baustein_cols' = cols
           /\ tasks_df' =
                [k \in 1..Len(idx) |->
                    LET b == TaskBausteine(df[idx[k]], cols)
                    IN  [idx |-> idx[k],
                         variant_clean |-> df[idx[k]].variant_clean,
                         B |-> b,
                         n_bausteine |-> NBausteine(b)]]
    /\ task_pos' = 1
    /\ pc' = "variant_loop"
    /\ UNCHANGED <<header, raw, df, variant_rows, stderr_warned, variants_csv>>
    /\ UNCHANGED analysisVars

\* var_label, synthesised as cluster + "A".."E" when the sheet label does not
\* match the variant pattern
VarLabel(var_label, cluster, offset) ==
    IF ~MatchVariant(var_label) THEN cluster \o <<ChrOffset(offset)>> ELSE var_label

\* the Baustein values read from the variant row instead of the task row
InheritFromVariantRow(task_row, var_row) ==
    [j \in 1..Len(task_row.B) |-> ConvertBaustein(CellOf(var_row, baustein_cols[j]))]

\* for col in baustein_cols: record[col] = task_row[col]
InheritBausteine(task_row, var_row) == task_row.B

\* The record of one variant row; ok is FALSE when int() raises. task_idx and
\* var_idx record the rows the record was built from; they are no columns.
Record(task_row, var_row, var_idx, offset) ==
    LET comp == IntOrZero(CellOf(var_row, S_comp_dot))
        pass == IntOrZero(CellOf(var_row, S_pass))
    IN  [ok |-> comp.ok /\ pass.ok,
         rec |-> [variant |-> VarLabel(var_row.variant_clean, task_row.variant_clean, offset),
                  cluster |-> task_row.variant_clean,
                  n_bausteine |-> task_row.n_bausteine,
                  comp |-> comp.val,
                  pass |-> pass.val,
                  B |-> InheritBausteine(task_row, var_row),
                  task_idx |-> task_row.idx,
                  var_idx |-> var_idx]]

\* if var_idx >= len(df): continue
InTable(d, var_idx) == var_idx <= Len(d)

\* for offset in range(1, 6): the records appended for one task row, up to
\* the first record whose construction raises
RECURSIVE Window(_, _, _, _)
Window(d, task_row, offset, acc) ==
    IF offset > WindowSize THEN [rows |-> acc, ok |-> TRUE]
    ELSE LET var_idx == task_row.idx + offset
         IN  IF ~InTable(d, var_idx) THEN Window(d, task_row, offset + 1, acc)
             ELSE LET r == Record(task_row, d[var_idx], var_idx, offset)
                  IN  IF r.ok THEN Window(d, task_row, offset + 1, Append(acc, r.rec))
                      ELSE [rows |-> acc, ok |-> FALSE]

\* one iteration of "for task_idx, task_row in tasks_df.iterrows()"
VariantLoop ==
    /\ pc = "variant_loop"
    /\ task_pos <= Len(tasks_df)
    /\ LET w == Window(df, tasks_df[task_pos], 1, variant_rows)
       IN  /\ variant_rows' = w.rows
           /\ pc' = IF w.ok THEN "variant_loop" ELSE "raised_int_nan"
    /\ task_pos' = task_pos + 1
    /\ UNCHANGED <<header, raw, df, baustein_cols, tasks_df, stderr_warned, variants_csv>>
    /\ UNCHANGED analysisVars

\* variants_sortiert.groupby("cluster").size()
ClusterSize(rows, c) == Cardinality({i \in 1..Len(rows) : rows[i].cluster = c})
Clusters(rows) == {rows[i].cluster : i \in 1..Len(rows)}

\* not check.eq(5).all()
NotAllFive(rows) == \E c \in Clusters(rows) : ClusterSize(rows, c) # ExpectedVariants

\* pd.DataFrame(variant_rows) of no records has no column "cluster":
\* groupby("cluster") raises KeyError
CheckClusters ==
    /\ pc = "variant_loop"
    /\ task_pos > Len(tasks_df)
    /\ IF variant_rows = <<>>
       THEN /\ pc' = "raised_key_error"
            /\ UNCHANGED stderr_warned
       ELSE /\ pc' = "to_csv"
            /\ stderr_warned' = NotAllFive(variant_rows)
    /\ UNCHANGED <<header, raw, df, baustein_cols, tasks_df, task_pos, variant_rows,
                   variants_csv>>
    /\ UNCHANGED analysisVars

\* the columns of pd.DataFrame(variant_rows): the keys of the records
RecordColumns(cols) == <<S_variant, S_cluster, S_n_bausteine, S_comp, S_pass>> \o cols

CsvRow(rec) ==
    [variant |-> rec.variant, cluster |-> rec.cluster, n_bausteine |-> rec.n_bausteine,
     comp |-> rec.comp, pass |-> rec.pass, B |-> rec.B]

\* variants_sortiert.to_csv(output_csv, ...)
ToCsv ==
    /\ pc = "to_csv"
    /\ variants_csv' =
            [written |-> TRUE,
             columns |-> RecordColumns(baustein_cols),
             rows |-> [i \in 1..Len(variant_rows) |-> CsvRow(variant_rows[i])]]
    /\ pc' = "built"
    /\ UNCHANGED <<header, raw, df, baustein_cols, tasks_df, task_pos, variant_rows,
                   stderr_warned>>
    /\ UNCHANGED analysisVars

\* ---------------------------------------------------------- analyse_bausteine.py
Outcomes == <<S_comp, S_pass>>

\* What the fit of an (outcome, predictor) pair does is decided by the data:
\* the pairs whose fit raises PerfectSeparationError or LinAlgError.
AllFits(cols) ==
    {<<Outcomes[o], p>> : o \in 1..Len(Outcomes),
                          p \in {S_n_bausteine} \cup {cols[j] : j \in 1..Len(cols)}}
FitPool(cols) ==
    {{}, AllFits(cols), {f \in AllFits(cols) : f[1] = S_comp /\ f[2] # S_n_bausteine}}

\* logit_cluster: the estimates, or NaN in every field when the fit raises
logit_cluster(raises, outcome, predictor) ==
    IF <<outcome, predictor>> \in raises THEN "nan" ELSE "est"

\* pd.read_csv("variants_sortiert.csv") and the setup
ReadCsv ==
    /\ pc = "built"
    /\ variants_csv.written
    /\ a_cols' = BausteinCols(variants_csv.columns)
    /\ fit_raises' \in FitPool(BausteinCols(variants_csv.columns))
    /\ a_pos' = 1
    /\ pc' = "sum_model"
    /\ UNCHANGED <<header, raw, df, sum_rows, presence_rows, reg_sum, reg_presence>>
    /\ UNCHANGED buildVars

\* one iteration of the loop of model A
SumRow(raises, outcome) ==
    [Outcome |-> outcome,
     predictor |-> S_n_bausteine,
     beta |-> logit_cluster(raises, outcome, S_n_bausteine)]

SumModel ==
    /\ pc = "sum_model"
    /\ a_pos <= Len(Outcomes)
    /\ sum_rows' = Append(sum_rows, SumRow(fit_raises, Outcomes[a_pos]))
    /\ IF a_pos = Len(Outcomes)
       THEN /\ a_pos' = 1
            /\ pc' = IF a_cols = <<>> THEN "export_results" ELSE "presence_model"
       ELSE /\ a_pos' = a_pos + 1
            /\ pc' = pc
    /\ UNCHANGED <<header, raw, df, a_cols, fit_raises, presence_rows, reg_sum, reg_presence>>
    /\ UNCHANGED buildVars

\* for b in baustein_cols: for outcome in ["comp", "pass"]: iteration pos
PresenceBaustein(cols, pos) == cols[((pos - 1) \div Len(Outcomes)) + 1]
PresenceOutcome(pos) == Outcomes[((pos - 1) % Len(Outcomes)) + 1]

PresenceRow(raises, outcome, b) ==
    [Outcome |-> outcome, Baustein |-> b, beta |-> logit_cluster(raises, outcome, b)]

PresenceModel ==
    /\ pc = "presence_model"
    /\ a_pos <= Len(a_cols) * Len(Outcomes)
    /\ presence_rows' =
            Append(presence_rows,
                   PresenceRow(fit_raises, PresenceOutcome(a_pos),
                               PresenceBaustein(a_cols, a_pos)))
    /\ IF a_pos = Len(a_cols) * Len(Outcomes)
       THEN /\ a_pos' = 1
            /\ pc' = "export_results"
       ELSE /\ a_pos' = a_pos + 1
            /\ pc' = pc
    /\ UNCHANGED <<header, raw, df, a_cols, fit_raises, sum_rows, reg_sum, reg_presence>>
    /\ UNCHANGED buildVars

\* code points of the characters of the column names and outcomes
Ord(c) ==
    CASE c \in Digits -> 48 + (CHOOSE i \in 0..9 : DigitChars[i + 1] = c)
      [] c = "." -> 46
      [] c = "B" -> 66
      [] c = "_" -> 95
      [] c = "a" -> 97
      [] c = "b" -> 98
      [] c = "c" -> 99
      [] c = "e" -> 101
      [] c = "i" -> 105
      [] c = "l" -> 108
      [] c = "m" -> 109
      [] c = "n" -> 110
      [] c = "o" -> 111
      [] c = "p" -> 112
      [] c = "r" -> 114
      [] c = "s" -> 115
      [] c = "t" -> 116
      [] c = "u" -> 117
      [] c = "v" -> 118
      [] c = "x" -> 120

\* a < b for text, as Python compares str
RECURSIVE StrLess(_, _)
StrLess(a, b) ==
    IF b = <<>> THEN FALSE
    ELSE IF a = <<>> THEN TRUE
    ELSE IF Head(a) # Head(b) THEN Ord(Head(a)) < Ord(Head(b))
    ELSE StrLess(Tail(a), Tail(b))

\* row x sorts strictly before row y under ["Outcome", "Baustein"]
KeyLess(x, y) ==
    \/ StrLess(x.Outcome, y.Outcome)
    \/ (x.Outcome = y.Outcome /\ StrLess(x.Baustein, y.Baustein))

\* x put after the rows that do not sort after it
RECURSIVE InsertSorted(_, _)
InsertSorted(x, s) ==
    IF s = <<>> THEN <<x>>
    ELSE IF KeyLess(x, Head(s)) THEN <<x>> \o s
    ELSE <<Head(s)>> \o InsertSorted(x, Tail(s))

RECURSIVE SortFrom(_, _)
SortFrom(s, acc) ==
    IF s = <<>> THEN acc ELSE SortFrom(Tail(s), InsertSorted(Head(s), acc))

\* .sort_values(["Outcome", "Baustein"]).reset_index(drop=True)
sort_values(rows) == SortFrom(rows, <<>>)

SumColumns == <<"Outcome", "beta", "SE", "CI_low", "CI_up", "OR", "OR_low", "OR_up", "p">>
PresenceColumns ==
    <<"Outcome", "Baustein", "beta", "SE", "CI_low", "CI_up", "OR", "OR_low", "OR_up", "p">>

\* The sort and the two to_csv calls. pd.DataFrame([]) has no columns, so
\* sort_values raises KeyError before either file is written.
ExportResults ==
    /\ pc = "export_results"
    /\ IF presence_rows = <<>>
       THEN /\ pc' = "raised_key_error_sort"
            /\ UNCHANGED <<reg_sum, reg_presence>>
       ELSE /\ reg_sum' = [written |-> TRUE, columns |-> SumColumns, rows |-> sum_rows]
            /\ reg_presence' =
                    [written |-> TRUE,
                     columns |-> PresenceColumns,
                     rows |-> sort_values(presence_rows)]
            /\ pc' = "analysed"
    /\ UNCHANGED <<header, raw, df, a_cols, fit_raises, a_pos, sum_rows, presence_rows>>
    /\ UNCHANGED buildVars

Next ==
    \/ ReadExcel
    \/ FindTasks
    \/ VariantLoop
    \/ CheckClusters
    \/ ToCsv
    \/ ReadCsv
    \/ SumModel
    \/ PresenceModel
    \/ ExportResults

Spec == Init /\ [][Next]_vars

\* ------------------------------------------------------------------ claims
\* the records of the variant table, once it is written
Emitted == IF variants_csv.written THEN variant_rows ELSE <<>>

\* the build script has ended: it wrote the table or it raised
BuildEnded == pc \notin {"read_excel", "find_tasks", "variant_loop", "to_csv"}

\* the loop over the task rows has run to its end
RecordsBuilt == pc \notin {"read_excel", "find_tasks", "variant_loop", "raised_int_nan"}

\* C1: no two records of the written variant table carry the same "variant"
\* name.
C1_VariantUnique ==
    \A i, j \in 1..Len(variants_csv.rows) :
        i # j => variants_csv.rows[i].variant # variants_csv.rows[j].variant

\* C2: once the records are built the run completes: the warning is on
\* stderr exactly when some cluster label has a number of records other than
\* 5, and all built records are in the CSV unchanged.
C2_WarnOnlyAndExport ==
    RecordsBuilt =>
        /\ pc # "raised_key_error"
        /\ stderr_warned <=>
              (\E i \in 1..Len(variant_rows) :
                  Cardinality({j \in 1..Len(variant_rows) :
                                  variant_rows[j].cluster = variant_rows[i].cluster}) # 5)
        /\ (pc # "to_csv") =>
              /\ variants_csv.written
              /\ Len(variants_csv.rows) = Len(variant_rows)
              /\ \A i \in 1..Len(variant_rows) :
                    /\ variants_csv.rows[i].variant = variant_rows[i].variant
                    /\ variants_csv.rows[i].cluster = variant_rows[i].cluster
                    /\ variants_csv.rows[i].n_bausteine = variant_rows[i].n_bausteine
                    /\ variants_csv.rows[i].comp = variant_rows[i].comp
                    /\ variants_csv.rows[i].pass = variant_rows[i].pass
                    /\ variants_csv.rows[i].B = variant_rows[i].B

\* C3: every record of the variant table has comp in {0, 1} and pass in
\* {0, 1}.
C3_CompPassBinary ==
    \A i \in 1..Len(variants_csv.rows) :
        /\ variants_csv.rows[i].comp \in {0, 1}
        /\ variants_csv.rows[i].pass \in {0, 1}

\* C4: every Baustein column of every record of the variant table holds 0 or 1.
C4_BausteinBinary ==
    \A i \in 1..Len(variants_csv.rows) :
        \A j \in 1..Len(variants_csv.rows[i].B) : variants_csv.rows[i].B[j] \in {0, 1}

\* the whole number a Baustein cell counts as: empty and non-numeric cells
\* count as 0
CountedAs(c) ==
    IF c.t \notin {"num", "numstr"} THEN 0
    ELSE IF c.v >= 0 THEN c.v \div 10 ELSE -((-c.v) \div 10)

\* C5: every record holds, for each Baustein column, the converted cell of
\* the task row that produced it, and its n_bausteine is the sum of its own
\* Baustein values.
C5_InheritsTask ==
    \A i \in 1..Len(variant_rows) :
        LET rec == variant_rows[i]
            task == raw[rec.task_idx]
        IN  /\ Len(rec.B) = Len(baustein_cols)
            /\ \A j \in 1..Len(baustein_cols) :
                  rec.B[j] = CountedAs(task.cells[ColPos(baustein_cols[j])])
            /\ rec.n_bausteine = SumSeq(rec.B)

\* C5 witness: a written record of a task whose cells are 2 and -1.5, which
\* inherits 2 and -1 and the sum 1.
C5_Witness ==
    /\ variants_csv.written
    /\ \E i \in 1..Len(variant_rows) :
          /\ Len(variant_rows[i].B) >= 2
          /\ variant_rows[i].B[1] = 2
          /\ variant_rows[i].B[2] = -1
          /\ variant_rows[i].n_bausteine = 1
          /\ variant_rows[i].var_idx > variant_rows[i].task_idx + 1

\* the rows t+1 .. t+5 of the table that exist, for the task row at t
RECURSIVE RowsAfter(_, _, _)
RowsAfter(t, k, n) ==
    IF k > 5 \/ t + k > n THEN <<>>
    ELSE << <<t, t + k>> >> \o RowsAfter(t, k + 1, n)

\* for every task row in table order, the rows of its window in row order
RECURSIVE ExpectedPairs(_)
ExpectedPairs(t) ==
    IF t > Len(df) THEN <<>>
    ELSE (IF MatchTask(df[t].variant_clean) THEN RowsAfter(t, 1, Len(df)) ELSE <<>>)
            \o ExpectedPairs(t + 1)

\* C6: the output holds, for every task row at t in table order, one record
\* for each of the rows t+1..t+5 that exists, in row order, with the task
\* row's label as cluster, and nothing else.
C6_WindowRecords ==
    BuildEnded =>
        LET want == ExpectedPairs(1)
        IN  /\ Len(Emitted) = Len(want)
            /\ \A i \in 1..Len(want) :
                  /\ Emitted[i].task_idx = want[i][1]
                  /\ Emitted[i].var_idx = want[i][2]
                  /\ Emitted[i].cluster = df[want[i][1]].variant_clean

\* C7: every record of the output is built from a row that is no task row,
\* and no row of the sheet is the source of two records.
C7_VariantRowsOnce ==
    /\ \A i \in 1..Len(Emitted) : ~MatchTask(df[Emitted[i].var_idx].variant_clean)
    /\ \A i, j \in 1..Len(Emitted) : i # j => Emitted[i].var_idx # Emitted[j].var_idx

\* the analysis script has ended: it wrote its files or it raised
AnalysisEnded == pc \in {"analysed", "raised_key_error_sort"}

\* C8: reg_presence.csv holds exactly one row for every pair of an outcome
\* and a column of variants_sortiert.csv named B<digits>, ordered by Outcome
\* and then by Baustein, and reg_sum.csv holds the rows comp and pass for
\* the predictor n_bausteine.
C8_RegressionRows ==
    AnalysisEnded =>
        LET names == {c \in {variants_csv.columns[j] : j \in 1..Len(variants_csv.columns)} :
                         MatchB(c)}
            rows == reg_presence.rows
        IN  /\ reg_presence.written
            /\ reg_sum.written
            /\ names = {baustein_cols[j] : j \in 1..Len(baustein_cols)}
            /\ Len(rows) = 2 * Cardinality(names)
            /\ \A o \in {S_comp, S_pass}, b \in names :
                  Cardinality({i \in 1..Len(rows) :
                                  rows[i].Outcome = o /\ rows[i].Baustein = b}) = 1
            /\ \A i \in 1..(Len(rows) - 1) :
                  \/ StrLess(rows[i].Outcome, rows[i + 1].Outcome)
                  \/ /\ rows[i].Outcome = rows[i + 1].Outcome
                     /\ StrLess(rows[i].Baustein, rows[i + 1].Baustein)
            /\ Len(reg_sum.rows) = 2
            /\ reg_sum.rows[1].Outcome = S_comp
            /\ reg_sum.rows[2].Outcome = S_pass
            /\ \A i \in 1..2 : reg_sum.rows[i].predictor = S_n_bausteine

====
